---- MODULE Spec2Model ----
(***************************************************************************)
(* Model of koishi-plugin-manosaba-text-box: the service entry point       *)
(* (service.ts), the two process-wide readiness gates (getVips,            *)
(* ensureResvgInitialized) and the image pipeline (generateBaseImage,      *)
(* drawUserText, generateTextBoxImage) of utils/core.ts.                   *)
(*                                                                         *)
(* The repository holds two builds of utils/core.ts.  variant = "sync" is  *)
(* src/src/utils/core.ts (engine constructed at module load, wasm file     *)
(* read synchronously, final encode to AVIF); variant = "async" is         *)
(* src/unnamed/part_001 (engine constructed lazily by initVips, wasm file  *)
(* read with an awaited fs.readFile, final encode to PNG, and a            *)
(* yieldToEventLoop after every native call).                              *)
(*                                                                         *)
(* One invocation is one request.  Its position pc[p] moves from one       *)
(* suspension point of the async build to the next; the code between two   *)
(* suspension points is one action.  A throw, the finally block it runs    *)
(* through and the rejection of the request are synchronous and belong to  *)
(* the action that throws.                                                 *)
(***************************************************************************)
EXTENDS Integers, Sequences, FiniteSets, TLC

\* Number of concurrent requests the host issues.
NumInv == 2

Procs == 1..NumInv

Variants == {"sync", "async"}

\* ------------------------------------------------------------------ data

\* Characters of config/chara_meta.yml as the model knows them, and one id
\* that is in no catalog.
CatalogCharacters == {"ema", "hiro"}
UnknownCharacter == "nobody"
Characters == CatalogCharacters \cup {UnknownCharacter}

\* The service's config.defaultCharacter.
DefaultCharacter == "ema"

\* config/text_configs.yml: the name CaptionSpecs of each character that has
\* any.  "ema" has a spec with empty text between two specs with text.
CatalogTextConfigs ==
  [c \in {"ema"} |->
     << [text |-> "E", position |-> <<759, 63>>],
        [text |-> "", position |-> <<900, 100>>],
        [text |-> "ma", position |-> <<910, 150>>] >>]

\* options.text of a request: undefined, or a string (a sequence of
\* characters; " " is white space).
Missing == <<"undefined">>
UserTexts == {Missing, <<>>, <<" ", " ">>, <<" ", "a", " ">>}

IsWhiteSpace(ch) == ch = " "

\* String.prototype.trim: drop leading and trailing white space.
RECURSIVE TrimStart(_)
TrimStart(s) ==
  IF s = <<>> THEN <<>>
  ELSE IF IsWhiteSpace(Head(s)) THEN TrimStart(Tail(s)) ELSE s

RECURSIVE TrimEnd(_)
TrimEnd(s) ==
  IF s = <<>> THEN <<>>
  ELSE IF IsWhiteSpace(s[Len(s)]) THEN TrimEnd(SubSeq(s, 1, Len(s) - 1)) ELSE s

Trim(s) == TrimEnd(TrimStart(s))

\* service.ts line 51: !text || text.trim().length === 0
TextRejectedNoTrim(text) == text = Missing \/ Len(text) = 0
TextRejected(text) == text = Missing \/ Len(text) = 0 \/ Len(Trim(text)) = 0

\* RasterImage handles of one invocation, named by the expression that
\* creates them.
\* <<"result", 0>> is the base composite, <<"result", k>> the composite of the
\* k-th name caption; <<"image", 1>> and <<"textImage", 1>> are the results of
\* bandjoin(255).
Null == <<"null", 0>>

\* Encoded bytes: the container format and the layers composited into them.
NoBytes == [fmt |-> "none", layers |-> <<>>]

NoError == "none"

VARIABLES
  variant,       \* which build of utils/core.ts is loaded
  charaMeta,     \* core.ts charaMeta: ids of the catalog
  textConfigs,   \* core.ts textConfigs: character -> sequence of specs
  vipsPromise,   \* "null" | "pending" | "raw" | "resolved" | "rejected"
  vipsInstance,  \* 0 (null) or the engine: the number of its construction
  vipsCount,     \* number of Vips() constructions started
  vipsTuned,     \* concurrency(1) and Cache.max(0) have been applied
  initialized,   \* globalState.initialized
  initializing,  \* globalState.initializing: 0 (null) or an attempt's promise
  attempt,       \* attempt -> "unused" | "reading" | "initWasm" | "resolved" | "rejected"
  answered,      \* attempt -> what ended it ("none" while it runs)
  nAttempts,     \* attempts started so far
  initWasmCalls, \* calls of initWasm so far
  wasmReady,     \* the resvg wasm module's own "initialized" flag
  pc,            \* position of each invocation
  req,           \* the request's arguments
  loc,           \* the local variables of generateBaseImage / drawUserText
  created,       \* handles created by the invocation
  disposed,      \* handles on which [Symbol.dispose]() was called, in order
  baseBytes,     \* what generateBaseImage returned
  out,           \* how the request ended
  trace,         \* per invocation: counters of the calls it made
  layout,        \* one run of the user-caption layout (search and document)
  disposeThrows, \* the handles whose [Symbol.dispose]() throws
  fileAlpha,     \* origin of an image -> whether it comes with an alpha channel
  assets         \* initAssets: its position, its calls and how the last one went

gateVars == <<vipsPromise, vipsInstance, vipsCount, vipsTuned>>
resvgVars == <<initialized, initializing, attempt, answered, nAttempts, initWasmCalls,
               wasmReady>>
catalogVars == <<variant, disposeThrows, fileAlpha, charaMeta, textConfigs>>
handleVars == <<loc, created, disposed>>
sideVars == <<layout, assets>>
vars == <<variant, charaMeta, textConfigs, vipsPromise, vipsInstance, vipsCount,
          vipsTuned, initialized, initializing, attempt, answered, nAttempts,
          initWasmCalls,
          wasmReady, pc, req, loc, created, disposed, baseBytes, out, trace,
          layout, disposeThrows, fileAlpha, assets>>

\* Every gate call starts at most one attempt, and an invocation calls the
\* renderer gate at most twice.
Attempts == 1..(2 * NumInv)

NoReq == [via |-> "none", character |-> UnknownCharacter, text |-> Missing]

\* names: the renders and composites of the name-caption loop, in the order
\* they were made.
\* composites: the composite2 calls that returned, each with the alpha
\* presence of its two operands.
\* imageAlpha / textAlpha: what image.hasAlpha() / textImage.hasAlpha() answer
\* for the handle the local holds.
NoLoc == [bgImage |-> Null, charImage |-> Null, result |-> Null,
          image |-> Null, textImage |-> Null, userResult |-> Null,
          imageAlpha |-> FALSE, textAlpha |-> FALSE,
          k |-> 0, layers |-> <<>>, names |-> <<>>, composites |-> <<>>,
          awaiting |-> 0]

\* gtbi: calls of generateTextBoxImage; via/result: how the last call of
\* ensureResvgInitialized went ("ready" | "joined" | "started", "ok" | "error");
\* engine: the engine getVips returned last; untuned: getVips returned an
\* engine before it was tuned; userStage: drawUserText was entered; thrown:
\* the error thrown inside generateBaseImage or drawUserText.
NoTrace == [gtbi |-> 0, via |-> "none", result |-> "none", engine |-> 0,
            untuned |-> FALSE, userStage |-> FALSE, thrown |-> NoError]

NoOut == [status |-> "pending", error |-> NoError, bytes |-> NoBytes]

\* No layout runs.
NoLayout == [pc |-> "idle", text |-> <<>>, boxRect |-> <<<<0, 0>>, <<0, 0>>>>,
             initialFontSize |-> 0, testFontSize |-> 0, fontSize |-> 0,
             lines |-> <<>>, svgWidth |-> <<"number", 0>>, svgHeight10 |-> 0]

\* initAssets is not running; it was called once and both files loaded.
LoadedAssets == [pc |-> "idle", calls |-> 1, failed |-> "none", threw |-> FALSE]

\* The module state of utils/core.ts apart from the catalog, and no request
\* under way.
ProcessInit ==
  /\ variant \in Variants
  \* core.ts line 11 constructs the engine when the module is loaded;
  \* part_001 line 15 leaves it to the first initVips.
  /\ vipsPromise = IF variant = "sync" THEN "pending" ELSE "null"
  /\ vipsCount = IF variant = "sync" THEN 1 ELSE 0
  /\ vipsInstance = 0
  /\ vipsTuned = FALSE
  /\ initialized = FALSE
  /\ initializing = 0
  /\ attempt = [a \in Attempts |-> "unused"]
  /\ answered = [a \in Attempts |-> "none"]
  /\ nAttempts = 0
  /\ initWasmCalls = 0
  /\ wasmReady \in BOOLEAN
  /\ pc = [p \in Procs |-> "idle"]
  /\ req = [p \in Procs |-> NoReq]
  /\ loc = [p \in Procs |-> NoLoc]
  /\ created = [p \in Procs |-> {}]
  /\ disposed = [p \in Procs |-> <<>>]
  /\ baseBytes = [p \in Procs |-> NoBytes]
  /\ out = [p \in Procs |-> NoOut]
  /\ trace = [p \in Procs |-> NoTrace]

\* Where the images of the base stage come from: the background file and the
\* character file (core.ts 183, 192), a rendered name caption (line 229), and
\* composite2 itself (lines 194, 232), whose result is the next accumulator.
AlphaOrigins == {"background", "character", "name", "composite"}
EveryAlpha == [o \in AlphaOrigins |-> TRUE]

\* The plugin has been applied: initAssets has loaded config/chara_meta.yml
\* and config/text_configs.yml.  Every release succeeds and every image of
\* the base stage has an alpha channel; ReleaseSpec is the specification with
\* releases that throw, AlphaSpec the one with images that lack the channel.
Init ==
  /\ ProcessInit
  /\ charaMeta = CatalogCharacters
  /\ textConfigs = CatalogTextConfigs
  /\ layout = NoLayout
  /\ disposeThrows = {}
  /\ fileAlpha = EveryAlpha
  /\ assets = LoadedAssets

\* ------------------------------------------------------------- helpers

NotNull(h) == h # Null

\* core.ts 237-239, 242-244, 251-265, 474-488:
\* try { h[Symbol.dispose]() } catch (_e) {}.  Every dispose has a try
\* statement of its own with an empty catch: a throw of dispose does not
\* leave it.
DisposeEscapesUncaught(h) == h \in disposeThrows
DisposeEscapes(h) == FALSE

\* [Symbol.dispose]() called on each of the locals that is set, in the order
\* given, up to one whose throw escapes: the handles dispose was called on.
RECURSIVE DisposeEach(_)
DisposeEach(locals) ==
  IF locals = <<>> THEN <<>>
  ELSE IF Head(locals) = Null THEN DisposeEach(Tail(locals))
  ELSE IF DisposeEscapes(Head(locals)) THEN <<Head(locals)>>
  ELSE <<Head(locals)>> \o DisposeEach(Tail(locals))

\* A finally block (core.ts 250-266, 473-489) after the handles of d.
Finally(d, locals) == d \o DisposeEach(locals)

Failed(err) == [status |-> "failed", error |-> err, bytes |-> NoBytes]
Returned(bytes) == [status |-> "returned", error |-> NoError, bytes |-> bytes]

\* What a function whose finally block disposes locals ends with, when its
\* try or catch block ended with outcome: an exception that leaves a finally
\* block replaces the outcome, and none leaves these.
AfterFinally(outcome, locals) ==
  IF \E i \in 1..Len(locals) : locals[i] # Null /\ DisposeEscapes(locals[i])
  THEN Failed("DisposeError")
  ELSE outcome

\* core.ts 502: if (!charaMeta[character]) throw
KnownCharacterAlways(c) == TRUE
KnownCharacter(c) == c \in charaMeta

\* core.ts 197: if (textConfigs[character])
HasTextConfigs(c) == c \in DOMAIN textConfigs

SpecsOf(c) == IF HasTextConfigs(c) THEN textConfigs[c] ELSE <<>>

\* core.ts 204-205: the next spec at or after k whose text is not empty
\* (if (!config.text) continue), or Len + 1 when the loop is over.
NextSpecNoSkip(specs, k) == IF k > Len(specs) THEN Len(specs) + 1 ELSE k
RECURSIVE NextSpec(_, _)
NextSpec(specs, k) ==
  IF k > Len(specs) THEN Len(specs) + 1
  ELSE IF specs[k].text = "" THEN NextSpec(specs, k + 1) ELSE k

\* How a request ends.  A throw out of generateBaseImage or out of
\* generateTextBoxImage reaches the caller of generateImage (service.ts 64-67
\* logs and rethrows).
Reject(p, err) ==
  /\ out' = [out EXCEPT ![p] = Failed(err)]
  /\ pc' = [pc EXCEPT ![p] = "done"]

\* --------------------------------------------------- raster engine gate

\* part_001 18: if (!vipsPromise); core.ts never constructs after load.
EngineNeedsConstructionAlways == variant = "async"
EngineNeedsConstructionRetries == variant = "async" /\ vipsPromise \in {"null", "rejected"}
EngineNeedsConstruction == variant = "async" /\ vipsPromise = "null"

\* The promise getVips awaits is the one .then() returns (core.ts 11-18).
EngineFulfilledRaw == vipsPromise \in {"raw", "resolved"}
EngineFulfilled == vipsPromise = "resolved"

AfterVipsSkipsBackground(p) ==
  IF pc[p] = "base_getVips" THEN "base_loadChar" ELSE "user_ensureResvg"
AfterVips(p) == IF pc[p] = "base_getVips" THEN "base_loadBg" ELSE "user_ensureResvg"
AfterVipsAwait(p) == IF pc[p] = "base_awaitVips" THEN "base_loadBg" ELSE "user_ensureResvg"

\* getVips up to its await (core.ts 30-35, part_001 41-47).
GetVips(p) ==
  /\ pc[p] \in {"base_getVips", "user_getVips"}
  /\ IF vipsInstance # 0
     THEN /\ pc' = [pc EXCEPT ![p] = AfterVips(p)]
          /\ trace' = [trace EXCEPT ![p].untuned = @ \/ ~vipsTuned,
                                    ![p].engine = vipsInstance]
          /\ UNCHANGED <<vipsPromise, vipsCount>>
     ELSE /\ pc' = [pc EXCEPT ![p] =
                      IF pc[p] = "base_getVips" THEN "base_awaitVips" ELSE "user_awaitVips"]
          /\ IF EngineNeedsConstruction
             THEN vipsPromise' = "pending" /\ vipsCount' = vipsCount + 1
             ELSE UNCHANGED <<vipsPromise, vipsCount>>
          /\ UNCHANGED trace
  /\ UNCHANGED <<catalogVars, sideVars, resvgVars, vipsInstance, vipsTuned, req, handleVars,
                 baseBytes, out>>

\* getVips resumed: vipsInstance = await promise.  Both call sites are outside
\* the caller's try block (core.ts 171, 346), so a rejection fails the request.
AwaitVips(p) ==
  /\ pc[p] \in {"base_awaitVips", "user_awaitVips"}
  /\ EngineFulfilled \/ vipsPromise = "rejected"
  /\ IF vipsPromise # "rejected"
     THEN /\ vipsInstance' = vipsCount
          /\ pc' = [pc EXCEPT ![p] = AfterVipsAwait(p)]
          /\ trace' = [trace EXCEPT ![p].untuned = @ \/ ~vipsTuned,
                                    ![p].engine = vipsCount]
          /\ UNCHANGED out
     ELSE /\ Reject(p, "VipsInitError")
          /\ UNCHANGED <<vipsInstance, trace>>
  /\ UNCHANGED <<catalogVars, sideVars, resvgVars, vipsPromise, vipsCount, vipsTuned, req,
                 handleVars, baseBytes>>

\* Vips({dynamicLibraries}) settles.
VipsConstructed ==
  /\ vipsPromise = "pending"
  /\ \E ok \in BOOLEAN : vipsPromise' = IF ok THEN "raw" ELSE "rejected"
  /\ UNCHANGED <<catalogVars, sideVars, resvgVars, vipsInstance, vipsCount, vipsTuned, pc, req,
                 handleVars, baseBytes, out, trace>>

\* The .then callback: vips.concurrency(1); vips.Cache.max(0); return vips.
VipsTuned ==
  /\ vipsPromise = "raw"
  /\ vipsTuned' = TRUE
  /\ vipsPromise' = "resolved"
  /\ UNCHANGED <<catalogVars, sideVars, resvgVars, vipsInstance, vipsCount, pc, req,
                 handleVars, baseBytes, out, trace>>

\* ------------------------------------------------------- renderer gate

\* core.ts 38: if (globalState.initialized) return
GateReadyNever == FALSE
GateReadyAlways == TRUE
GateReady == initialized

\* core.ts 42: if (globalState.initializing)
AttemptRecordedNever == FALSE
AttemptRecorded == initializing # 0

\* core.ts 55: err instanceof Error && err.message.includes('Already initialized')
IsAlreadyInitializedNever(err) == FALSE
IsAlreadyInitialized(err) == err = "AlreadyInitialized"

InFlight == {a \in Attempts : attempt[a] \in {"reading", "initWasm"}}

AfterResvg(p) ==
  IF pc[p] \in {"base_names", "base_awaitResvg"} THEN "base_readFont" ELSE "user_decode"

\* core.ts 176-267: generateBaseImage has a try/finally and no catch, and
\* generateTextBoxImage awaits it outside any try (line 518): the error
\* reaches the caller.
BaseOutcomeSwallows(p, err) == Returned([fmt |-> "avif", layers |-> loc[p].layers])
BaseOutcome(p, err) == Failed(err)

\* A throw inside generateBaseImage's try block, with its finally block
\* (core.ts 250-266).
BaseThrows(p, err) ==
  /\ trace' = [trace EXCEPT ![p].thrown = err]
  /\ out' = [out EXCEPT ![p] =
               AfterFinally(BaseOutcome(p, err),
                            <<loc[p].result, loc[p].charImage, loc[p].bgImage>>)]
  /\ pc' = [pc EXCEPT ![p] = "done"]
  /\ disposed' = [disposed EXCEPT ![p] =
                    Finally(@, <<loc[p].result, loc[p].charImage, loc[p].bgImage>>)]

\* core.ts 470-472: catch (err) { logger.error(...); return baseImage }
UserCatchRethrows(p, err) == Failed(err)
UserCatch(p, err) == Returned(baseBytes[p])

\* A throw inside drawUserText's try block, with its finally block
\* (core.ts 473-489).
UserThrows(p, err) ==
  /\ trace' = [trace EXCEPT ![p].thrown = err]
  /\ out' = [out EXCEPT ![p] =
               AfterFinally(UserCatch(p, err),
                            <<loc[p].userResult, loc[p].textImage, loc[p].image>>)]
  /\ pc' = [pc EXCEPT ![p] = "done"]
  /\ disposed' = [disposed EXCEPT ![p] =
                    Finally(@, <<loc[p].userResult, loc[p].textImage, loc[p].image>>)]

\* The statement after "await ensureResvgInitialized()" is reached.
GateReturns(p, via) ==
  /\ pc' = [pc EXCEPT ![p] = AfterResvg(p)]
  /\ trace' = [trace EXCEPT ![p].via = via, ![p].result = "ok"]
  /\ UNCHANGED <<out, disposed>>

GateThrows(p, via, err) ==
  /\ trace' = [trace EXCEPT ![p].via = via, ![p].result = "error", ![p].thrown = err]
  /\ out' = [out EXCEPT ![p] =
               IF pc[p] = "base_awaitResvg"
               THEN AfterFinally(BaseOutcome(p, err),
                                 <<loc[p].result, loc[p].charImage, loc[p].bgImage>>)
               ELSE AfterFinally(UserCatch(p, err),
                                 <<loc[p].userResult, loc[p].textImage, loc[p].image>>)]
  /\ pc' = [pc EXCEPT ![p] = "done"]
  /\ disposed' = [disposed EXCEPT ![p] =
       IF pc[p] = "base_awaitResvg"
       THEN Finally(@, <<loc[p].result, loc[p].charImage, loc[p].bgImage>>)
       ELSE Finally(@, <<loc[p].userResult, loc[p].textImage, loc[p].image>>)]

\* ensureResvgInitialized up to its await (core.ts 37-67, part_001 49-79),
\* called at pos.  The async function of lines 47-64 runs synchronously up to
\* its first await: require.resolve, then readFileSync (core.ts) or the start
\* of fs.readFile (part_001), then the call of initWasm.  If it throws before
\* that await, its catch block sets initializing = null and the function
\* returns a rejected promise, which line 47 then stores in initializing.
EnsureResvgInitialized(p, pos) ==
  /\ pc[p] = pos
  /\ IF GateReady
     THEN /\ GateReturns(p, "ready")
          /\ UNCHANGED <<resvgVars, loc>>
     ELSE IF AttemptRecorded
     THEN /\ loc' = [loc EXCEPT ![p].awaiting = initializing]
          /\ pc' = [pc EXCEPT ![p] =
                      IF pos = "base_names" THEN "base_awaitResvg" ELSE "user_awaitResvg"]
          /\ trace' = [trace EXCEPT ![p].via = "joined", ![p].result = "none"]
          /\ UNCHANGED <<resvgVars, out, disposed>>
     ELSE LET a == nAttempts + 1 IN
          /\ nAttempts' = a
          /\ initializing' = a
          /\ \E how \in {"throws", "suspends"} :
               /\ attempt' = [attempt EXCEPT ![a] =
                    IF how = "throws" THEN "rejected"
                    ELSE IF variant = "sync" THEN "initWasm" ELSE "reading"]
               /\ answered' = [answered EXCEPT ![a] =
                    IF how = "throws" THEN "WasmFileError" ELSE "none"]
               /\ initWasmCalls' =
                    IF how = "suspends" /\ variant = "sync"
                    THEN initWasmCalls + 1 ELSE initWasmCalls
          /\ loc' = [loc EXCEPT ![p].awaiting = a]
          /\ pc' = [pc EXCEPT ![p] =
                      IF pos = "base_names" THEN "base_awaitResvg" ELSE "user_awaitResvg"]
          /\ trace' = [trace EXCEPT ![p].via = "started", ![p].result = "none"]
          /\ UNCHANGED <<initialized, wasmReady, out, disposed>>
  /\ UNCHANGED <<catalogVars, sideVars, gateVars, req, created, baseBytes>>

\* The promise of attempt a has settled: "await globalState.initializing"
\* resumes when it is fulfilled and when it is rejected.
AttemptSettledOnlyResolved(a) == attempt[a] = "resolved"
AttemptSettled(a) == attempt[a] \in {"resolved", "rejected"}

\* "await globalState.initializing" resumed (core.ts 43 and 66).
AwaitResvg(p) ==
  /\ pc[p] \in {"base_awaitResvg", "user_awaitResvg"}
  /\ AttemptSettled(loc[p].awaiting)
  /\ IF attempt[loc[p].awaiting] = "resolved"
     THEN GateReturns(p, trace[p].via)
     ELSE GateThrows(p, trace[p].via, "RendererInitError")
  /\ UNCHANGED <<catalogVars, sideVars, gateVars, resvgVars, req, loc, created, baseBytes>>

\* part_001 62: the awaited fs.readFile(wasmPath) settles; on success the
\* attempt goes on to call initWasm (line 63).
WasmFileRead(a) ==
  /\ attempt[a] = "reading"
  /\ \E ok \in BOOLEAN :
       IF ok
       THEN /\ attempt' = [attempt EXCEPT ![a] = "initWasm"]
            /\ initWasmCalls' = initWasmCalls + 1
            /\ UNCHANGED <<initializing, answered>>
       ELSE /\ attempt' = [attempt EXCEPT ![a] = "rejected"]
            /\ answered' = [answered EXCEPT ![a] = "WasmFileError"]
            /\ initializing' = 0
            /\ UNCHANGED initWasmCalls
  /\ UNCHANGED <<catalogVars, sideVars, gateVars, initialized, nAttempts, wasmReady, pc, req,
                 handleVars, baseBytes, out, trace>>

\* What initWasm can answer: the wasm module refuses a second initialization
\* with 'Already initialized'; otherwise it succeeds or fails.
InitWasmAnswers == IF wasmReady THEN {"AlreadyInitialized"} ELSE {"ok", "WasmError"}

\* core.ts 51-63: "await initWasm(wasmBuffer)" settles.
InitWasmSettles(a) ==
  /\ attempt[a] = "initWasm"
  /\ \E answer \in InitWasmAnswers :
       /\ answered' = [answered EXCEPT ![a] = answer]
       /\ wasmReady' = (wasmReady \/ answer = "ok")
       /\ IF answer = "ok" \/ IsAlreadyInitialized(answer)
          THEN /\ initialized' = TRUE
               /\ attempt' = [attempt EXCEPT ![a] = "resolved"]
               /\ UNCHANGED initializing
          ELSE /\ initializing' = 0
               /\ attempt' = [attempt EXCEPT ![a] = "rejected"]
               /\ UNCHANGED initialized
  /\ UNCHANGED <<catalogVars, sideVars, gateVars, nAttempts, initWasmCalls, pc, req,
                 handleVars, baseBytes, out, trace>>

\* ------------------------------------------------------------ entry

\* core.ts 507-508: backgroundIndex ?? getRandomBackground(), then
\* emotionIndex ?? getRandomEmotion(character).  bg / em: whether the index
\* was passed.  The position says which pickers are still to be consulted.
AfterCheck(bg, em) ==
  IF ~bg THEN (IF em THEN "pick_bg" ELSE "pick_bg_em")
  ELSE IF ~em THEN "pick_em" ELSE "base_getVips"

\* generateTextBoxImage, lines 502-504 (part_001 531-533), called with the
\* given arguments.
GenerateTextBoxImage(p, character, bg, em) ==
  /\ trace' = [trace EXCEPT ![p].gtbi = @ + 1]
  /\ IF ~KnownCharacter(character)
     THEN Reject(p, "UnknownCharacter")
     ELSE /\ pc' = [pc EXCEPT ![p] = AfterCheck(bg, em)]
          /\ UNCHANGED out

\* ManosabaTextBoxService.generateImage (service.ts 43-68).
GenerateImage(p) ==
  /\ pc[p] = "idle"
  /\ \E given \in Characters \cup {"undefined"}, text \in UserTexts,
        bg \in BOOLEAN, em \in BOOLEAN :
       LET character == IF given = "undefined" THEN DefaultCharacter ELSE given
       IN /\ req' = [req EXCEPT ![p] =
                       [via |-> "service", character |-> character, text |-> text]]
          /\ IF TextRejected(text)
             THEN /\ Reject(p, "EmptyText")
                  /\ UNCHANGED trace
             ELSE GenerateTextBoxImage(p, character, bg, em)
  /\ UNCHANGED <<catalogVars, sideVars, gateVars, resvgVars, handleVars, baseBytes>>

\* The texts a direct caller of the export passes: the empty string and one
\* that is not empty.
DirectTexts == {<<>>, <<"a">>}

\* generateTextBoxImage called directly (core.ts 495-501: the export of
\* utils/core.ts), without the check of the text that generateImage and the
\* mtb command (part_002 36-38) make before they call it.
CallGenerateTextBoxImage(p) ==
  /\ pc[p] = "idle"
  /\ \E character \in Characters, text \in DirectTexts, bg \in BOOLEAN, em \in BOOLEAN :
       /\ req' = [req EXCEPT ![p] =
                    [via |-> "direct", character |-> character, text |-> text]]
       /\ GenerateTextBoxImage(p, character, bg, em)
  /\ UNCHANGED <<catalogVars, sideVars, gateVars, resvgVars, handleVars, baseBytes>>

\* getRandomBackground (core.ts 138-148, part_001 150-159): readdir may throw.
PickerAnswers == {"index", "ReaddirError"}

PickBackground(p) ==
  /\ pc[p] \in {"pick_bg", "pick_bg_em"}
  /\ \E answer \in PickerAnswers :
       IF answer = "index"
       THEN /\ pc' = [pc EXCEPT ![p] =
                        IF pc[p] = "pick_bg" THEN "base_getVips" ELSE "pick_em"]
            /\ UNCHANGED out
       ELSE Reject(p, answer)
  /\ UNCHANGED <<catalogVars, sideVars, gateVars, resvgVars, req, handleVars, baseBytes, trace>>

\* getRandomEmotion (core.ts 153-161), then generateBaseImage is entered and
\* suspends in "await getVips()" (core.ts 518, 171).
PickEmotion(p) ==
  /\ pc[p] = "pick_em"
  /\ pc' = [pc EXCEPT ![p] = "base_getVips"]
  /\ UNCHANGED <<catalogVars, sideVars, gateVars, resvgVars, req, handleVars, baseBytes, out, trace>>

\* ------------------------------------------------------- base stage

\* A native call either returns or throws.
NativeAnswers == {"ok", "throws"}

\* A handle is held by a local variable of the invocation that created it
\* (core.ts 172-174, 347-349: let bgImage, charImage, result; let image,
\* textImage, result).
NewHandleShared(p, h) == created' = [q \in Procs |-> created[q] \cup {h}]
NewHandle(p, h) == created' = [created EXCEPT ![p] = @ \cup {h}]

\* core.ts 177-183: bgImage = vips.Image.newFromFile(backgroundPath)
LoadBackground(p) ==
  /\ pc[p] = "base_loadBg"
  /\ \E answer \in NativeAnswers :
       IF answer = "ok"
       THEN /\ NewHandle(p, <<"bgImage", 0>>)
            /\ loc' = [loc EXCEPT ![p].bgImage = <<"bgImage", 0>>,
                                  ![p].layers = <<"background">>]
            /\ pc' = [pc EXCEPT ![p] = "base_loadChar"]
            /\ UNCHANGED <<out, disposed, trace>>
       ELSE /\ BaseThrows(p, "BackgroundLoadError")
            /\ UNCHANGED <<created, loc>>
  /\ UNCHANGED <<catalogVars, sideVars, gateVars, resvgVars, req, baseBytes>>

\* core.ts 185-192: charImage = vips.Image.newFromFile(characterPath)
LoadCharacter(p) ==
  /\ pc[p] = "base_loadChar"
  /\ \E answer \in NativeAnswers :
       IF answer = "ok"
       THEN /\ NewHandle(p, <<"charImage", 0>>)
            /\ loc' = [loc EXCEPT ![p].charImage = <<"charImage", 0>>]
            /\ pc' = [pc EXCEPT ![p] = "base_composite"]
            /\ UNCHANGED <<out, disposed, trace>>
       ELSE /\ BaseThrows(p, "CharacterLoadError")
            /\ UNCHANGED <<created, loc>>
  /\ UNCHANGED <<catalogVars, sideVars, gateVars, resvgVars, req, baseBytes>>

\* base.composite2(overlay, 'over', ...) at core.ts 194, 232 and 455: the
\* operands are passed as they are held at the call.
Composite2(stage, baseAlpha, overlayAlpha) ==
  [stage |-> stage, base |-> baseAlpha, overlay |-> overlayAlpha]

\* core.ts 194: result = bgImage.composite2(charImage, 'over', {x: 0, y: 134})
CompositeBase(p) ==
  /\ pc[p] = "base_composite"
  /\ \E answer \in NativeAnswers :
       IF answer = "ok"
       THEN /\ NewHandle(p, <<"result", 0>>)
            /\ loc' = [loc EXCEPT ![p].result = <<"result", 0>>,
                                  ![p].layers = Append(@, "character"),
                                  ![p].composites = Append(@,
                                     Composite2("base", fileAlpha["background"],
                                                fileAlpha["character"]))]
            /\ pc' = [pc EXCEPT ![p] = "base_names"]
            /\ UNCHANGED <<out, disposed, trace>>
       ELSE /\ BaseThrows(p, "BaseCompositeError")
            /\ UNCHANGED <<created, loc>>
  /\ UNCHANGED <<catalogVars, sideVars, gateVars, resvgVars, req, baseBytes>>

\* core.ts 197-198: if (textConfigs[character]) await ensureResvgInitialized()
NameCaptioning(p) ==
  /\ pc[p] = "base_names"
  /\ IF HasTextConfigs(req[p].character)
     THEN EnsureResvgInitialized(p, "base_names")
     ELSE /\ pc' = [pc EXCEPT ![p] = "base_encode"]
          /\ UNCHANGED <<catalogVars, sideVars, gateVars, resvgVars, req, handleVars, baseBytes,
                         out, trace>>

\* core.ts 200-202: fontBuffer = fs.readFileSync(fontPath)
ReadNameFont(p) ==
  /\ pc[p] = "base_readFont"
  /\ \E answer \in NativeAnswers :
       IF answer = "ok"
       THEN /\ loc' = [loc EXCEPT ![p].k = 1]
            /\ pc' = [pc EXCEPT ![p] = "name_render"]
            /\ UNCHANGED <<out, disposed, trace>>
       ELSE /\ BaseThrows(p, "FontReadError")
            /\ UNCHANGED loc
  /\ UNCHANGED <<catalogVars, sideVars, gateVars, resvgVars, req, created, baseBytes>>

\* core.ts 221-227: new Resvg(svg, ...).render() of the document built from
\* config.text (lines 208-218).
Rendered(specs, k) == [op |-> "render", spec |-> k, text |-> specs[k].text]

\* core.ts 232-235: tempResult = result.composite2(nameImage, 'over',
\* {x: config.position[0], y: config.position[1]})
Composited(specs, k, base, tempResult) ==
  [op |-> "composite", spec |-> k, base |-> base, at |-> specs[k].position,
   result |-> tempResult]

\* core.ts 204-227: the loop head, the skip of specs with empty text, and for
\* the next spec with text the document, new Resvg(svg, ...) and render().
RenderName(p) ==
  /\ pc[p] = "name_render"
  /\ LET specs == SpecsOf(req[p].character)
         k == NextSpec(specs, loc[p].k)
     IN IF k > Len(specs)
        THEN /\ pc' = [pc EXCEPT ![p] = "base_encode"]
             /\ loc' = [loc EXCEPT ![p].k = k]
             /\ UNCHANGED <<out, disposed, trace>>
        ELSE \E answer \in NativeAnswers :
               IF answer = "ok"
               THEN /\ pc' = [pc EXCEPT ![p] = "name_composite"]
                    /\ loc' = [loc EXCEPT ![p].k = k,
                                          ![p].names = Append(@, Rendered(specs, k))]
                    /\ UNCHANGED <<out, disposed, trace>>
               ELSE /\ BaseThrows(p, "NameRenderError")
                    /\ UNCHANGED loc
  /\ UNCHANGED <<catalogVars, sideVars, gateVars, resvgVars, req, created, baseBytes>>

\* core.ts 240: result = tempResult, after the superseded accumulator has been
\* disposed (lines 237-239).
NameAccumulatorKept(result, tempResult) == result
NameAccumulator(result, tempResult) == tempResult

\* core.ts 228-244: nameImage = newFromBuffer(asPng()); tempResult =
\* result.composite2(nameImage, ...); dispose result; result = tempResult;
\* dispose nameImage.  nameImage and tempResult are locals of the loop body:
\* the finally block of lines 250-266 does not know them.
CompositeName(p) ==
  /\ pc[p] = "name_composite"
  /\ LET k == loc[p].k
         nameImage == <<"nameImage", k>>
         tempResult == <<"result", k>>
     IN \E answer \in {"ok", "loadThrows", "compositeThrows"} :
          IF answer = "ok"
          THEN /\ created' = [created EXCEPT ![p] = @ \cup {nameImage, tempResult}]
               /\ disposed' = [disposed EXCEPT ![p] =
                                  @ \o DisposeEach(<<loc[p].result, nameImage>>)]
               /\ loc' = [loc EXCEPT ![p].result = NameAccumulator(@, tempResult),
                                     ![p].k = k + 1,
                                     ![p].names = Append(@,
                                        Composited(SpecsOf(req[p].character), k,
                                                   loc[p].result, tempResult)),
                                     ![p].layers = Append(@, "name"),
                                     ![p].composites = Append(@,
                                        Composite2("name", fileAlpha["composite"],
                                                   fileAlpha["name"]))]
               /\ pc' = [pc EXCEPT ![p] = "name_render"]
               /\ UNCHANGED <<out, trace>>
          ELSE IF answer = "loadThrows"
          THEN /\ BaseThrows(p, "NameLoadError")
               /\ UNCHANGED <<created, loc>>
          ELSE /\ NewHandle(p, nameImage)
               /\ BaseThrows(p, "NameCompositeError")
               /\ UNCHANGED loc
  /\ UNCHANGED <<catalogVars, sideVars, gateVars, resvgVars, req, baseBytes>>

\* core.ts 248-266 and 518-531: writeToBuffer('.avif', {Q: 100}), the finally
\* block, and back in generateTextBoxImage the call of drawUserText, which
\* suspends in "await getVips()".
EncodeBase(p) ==
  /\ pc[p] = "base_encode"
  /\ \E answer \in NativeAnswers :
       IF answer = "ok"
       THEN /\ baseBytes' = [baseBytes EXCEPT ![p] =
                               [fmt |-> "avif", layers |-> loc[p].layers]]
            /\ disposed' = [disposed EXCEPT ![p] =
                 Finally(@, <<loc[p].result, loc[p].charImage, loc[p].bgImage>>)]
            /\ pc' = [pc EXCEPT ![p] = "user_getVips"]
            /\ trace' = [trace EXCEPT ![p].userStage = TRUE]
            /\ UNCHANGED out
       ELSE /\ BaseThrows(p, "BaseEncodeError")
            /\ UNCHANGED baseBytes
  /\ UNCHANGED <<catalogVars, sideVars, gateVars, resvgVars, req, loc, created>>

\* ------------------------------------------------- user-caption stage

\* core.ts 351-352: try { await ensureResvgInitialized()
UserEnsureResvg(p) == EnsureResvgInitialized(p, "user_ensureResvg")

\* core.ts 362 and 434: if (!image.hasAlpha())
NeedsWideningNever(hasAlpha) == FALSE
NeedsWidening(hasAlpha) == ~hasAlpha

\* core.ts 354: image = vips.Image.newFromBuffer(baseImage); the decoded
\* image has an alpha channel or has none.
DecodeBase(p) ==
  /\ pc[p] = "user_decode"
  /\ \E answer \in NativeAnswers, hasAlpha \in BOOLEAN :
       IF answer = "ok"
       THEN /\ NewHandle(p, <<"image", 0>>)
            /\ loc' = [loc EXCEPT ![p].image = <<"image", 0>>,
                                  ![p].imageAlpha = hasAlpha]
            /\ pc' = [pc EXCEPT ![p] = "user_widen"]
            /\ UNCHANGED <<out, disposed, trace>>
       ELSE /\ UserThrows(p, "DecodeError")
            /\ UNCHANGED <<created, loc>>
  /\ UNCHANGED <<catalogVars, sideVars, gateVars, resvgVars, req, baseBytes>>

\* core.ts 362-365: if (!image.hasAlpha()) image = image.bandjoin(255).  The
\* assignment drops the only reference to the decoded handle without
\* disposing it.  Then the font read starts (awaited in part_001 393).
WidenBase(p) ==
  /\ pc[p] = "user_widen"
  /\ IF ~NeedsWidening(loc[p].imageAlpha)
     THEN /\ pc' = [pc EXCEPT ![p] = "user_layout"]
          /\ UNCHANGED <<out, disposed, created, loc, trace>>
     ELSE \E answer \in NativeAnswers :
            IF answer = "ok"
            THEN /\ NewHandle(p, <<"image", 1>>)
                 /\ loc' = [loc EXCEPT ![p].image = <<"image", 1>>,
                                       ![p].imageAlpha = TRUE]
                 /\ pc' = [pc EXCEPT ![p] = "user_layout"]
                 /\ UNCHANGED <<out, disposed, trace>>
            ELSE /\ UserThrows(p, "WidenError")
                 /\ UNCHANGED <<created, loc>>
  /\ UNCHANGED <<catalogVars, sideVars, gateVars, resvgVars, req, baseBytes>>

\* core.ts 366-405: the font read, the font-size search and generateTextSvg.
LayoutUserText(p) ==
  /\ pc[p] = "user_layout"
  /\ \E answer \in {"ok", "FontReadError", "LayoutError"} :
       IF answer = "ok"
       THEN /\ pc' = [pc EXCEPT ![p] = "user_render"]
            /\ UNCHANGED <<out, disposed, trace>>
       ELSE UserThrows(p, answer)
  /\ UNCHANGED <<catalogVars, sideVars, gateVars, resvgVars, req, loc, created, baseBytes>>

\* core.ts 409-418: new Resvg(svg, ...), render() and asPng().
RenderUserText(p) ==
  /\ pc[p] = "user_render"
  /\ \E answer \in {"ok", "RenderError"} :
       IF answer = "ok"
       THEN /\ pc' = [pc EXCEPT ![p] = "user_loadText"]
            /\ UNCHANGED <<out, disposed, trace>>
       ELSE UserThrows(p, answer)
  /\ UNCHANGED <<catalogVars, sideVars, gateVars, resvgVars, req, loc, created, baseBytes>>

\* core.ts 426: textImage = vips.Image.newFromBuffer(pngData.asPng())
LoadTextImage(p) ==
  /\ pc[p] = "user_loadText"
  /\ \E answer \in NativeAnswers, hasAlpha \in BOOLEAN :
       IF answer = "ok"
       THEN /\ NewHandle(p, <<"textImage", 0>>)
            /\ loc' = [loc EXCEPT ![p].textImage = <<"textImage", 0>>,
                                  ![p].textAlpha = hasAlpha]
            /\ pc' = [pc EXCEPT ![p] = "user_widenText"]
            /\ UNCHANGED <<out, disposed, trace>>
       ELSE /\ UserThrows(p, "TextLoadError")
            /\ UNCHANGED <<created, loc>>
  /\ UNCHANGED <<catalogVars, sideVars, gateVars, resvgVars, req, baseBytes>>

\* core.ts 434-437: if (!textImage.hasAlpha()) textImage =
\* textImage.bandjoin(255)
WidenText(p) ==
  /\ pc[p] = "user_widenText"
  /\ IF ~NeedsWidening(loc[p].textAlpha)
     THEN /\ pc' = [pc EXCEPT ![p] = "user_composite"]
          /\ UNCHANGED <<out, disposed, created, loc, trace>>
     ELSE \E answer \in NativeAnswers :
            IF answer = "ok"
            THEN /\ NewHandle(p, <<"textImage", 1>>)
                 /\ loc' = [loc EXCEPT ![p].textImage = <<"textImage", 1>>,
                                       ![p].textAlpha = TRUE]
                 /\ pc' = [pc EXCEPT ![p] = "user_composite"]
                 /\ UNCHANGED <<out, disposed, trace>>
            ELSE /\ UserThrows(p, "WidenError")
                 /\ UNCHANGED <<created, loc>>
  /\ UNCHANGED <<catalogVars, sideVars, gateVars, resvgVars, req, baseBytes>>

\* core.ts 455-458: result = image.composite2(textImage, 'over', {x, y})
CompositeUser(p) ==
  /\ pc[p] = "user_composite"
  /\ \E answer \in NativeAnswers :
       IF answer = "ok"
       THEN /\ NewHandle(p, <<"userResult", 0>>)
            /\ loc' = [loc EXCEPT ![p].userResult = <<"userResult", 0>>,
                                  ![p].layers = Append(@, "userText"),
                                  ![p].composites = Append(@,
                                     Composite2("user", loc[p].imageAlpha,
                                                loc[p].textAlpha))]
            /\ pc' = [pc EXCEPT ![p] = "user_encode"]
            /\ UNCHANGED <<out, disposed, trace>>
       ELSE /\ UserThrows(p, "UserCompositeError")
            /\ UNCHANGED <<created, loc>>
  /\ UNCHANGED <<catalogVars, sideVars, gateVars, resvgVars, req, baseBytes>>

\* core.ts 465 encodes '.avif' {Q: 100}; part_001 493 '.png' {compression: 9}.
TargetFormat == IF variant = "sync" THEN "avif" ELSE "png"

\* core.ts 465-489: out = result.writeToBuffer(...); return Buffer.from(out);
\* then the finally block.
EncodeUser(p) ==
  /\ pc[p] = "user_encode"
  /\ \E answer \in NativeAnswers :
       IF answer = "ok"
       THEN /\ out' = [out EXCEPT ![p] =
                         AfterFinally(
                           Returned([fmt |-> TargetFormat, layers |-> loc[p].layers]),
                           <<loc[p].userResult, loc[p].textImage, loc[p].image>>)]
            /\ pc' = [pc EXCEPT ![p] = "done"]
            /\ disposed' = [disposed EXCEPT ![p] =
                 Finally(@, <<loc[p].userResult, loc[p].textImage, loc[p].image>>)]
            /\ UNCHANGED trace
       ELSE UserThrows(p, "UserEncodeError")
  /\ UNCHANGED <<catalogVars, sideVars, gateVars, resvgVars, req, loc, created, baseBytes>>

\* ------------------------------------------------------------ catalog

\* Calls of initAssets in one run (the plugin applied and applied again).
MaxLoads == 2

\* core.ts 92-93: let charaMeta = {}, let textConfigs = {}
EmptyCharaMeta == {}
EmptyTextConfigs == [c \in {} |-> <<>>]

\* loadYaml (yaml.ts 4-7): readFileSync or yaml.load throws, or the document
\* is returned; the document has the top-level key or lacks it
\* ("charaMetaData.mahoshojo || {}").
YamlAnswers == {"ok", "noKey", "throws"}

\* core.ts 103-108: getAvailableCharacters, the ids of Object.entries(charaMeta).
GetAvailableCharacters ==
  CHOOSE q \in [1..Cardinality(charaMeta) -> charaMeta] :
    \A c \in charaMeta : \E i \in 1..Cardinality(charaMeta) : q[i] = c

\* core.ts 130-132: catch (err) { logger.error(...) }: the catalog is left as
\* it is.
OnLoadError(meta) == meta

\* core.ts 119-120: loadYaml(charaMetaPath) has returned or thrown.
CharaMetaSettles(answer) ==
  IF answer = "throws"
  THEN /\ charaMeta' = OnLoadError(charaMeta)
       /\ assets' = [assets EXCEPT !.pc = "idle", !.failed = "chara"]
       /\ UNCHANGED textConfigs
  ELSE /\ charaMeta' = IF answer = "ok" THEN CatalogCharacters ELSE EmptyCharaMeta
       /\ assets' = [assets EXCEPT !.pc = "text"]
       /\ UNCHANGED textConfigs

\* core.ts 122-123: loadYaml(textConfigPath) has returned or thrown;
\* charaMeta holds what line 120 assigned.
TextConfigsSettle(meta, answer) ==
  IF answer = "throws"
  THEN /\ charaMeta' = OnLoadError(meta)
       /\ assets' = [assets EXCEPT !.pc = "idle", !.failed = "text"]
       /\ UNCHANGED textConfigs
  ELSE /\ charaMeta' = meta
       /\ textConfigs' = IF answer = "ok" THEN CatalogTextConfigs ELSE EmptyTextConfigs
       /\ assets' = [assets EXCEPT !.pc = "idle", !.failed = "none"]

\* initAssets(basePath).  core.ts 111-133 runs to its end in one go;
\* part_001 123-145 suspends in "await loadYaml(charaMetaPath)".
InitAssets ==
  /\ assets.pc = "idle"
  /\ assets.calls < MaxLoads
  /\ IF variant = "async"
     THEN /\ assets' = [assets EXCEPT !.pc = "chara", !.calls = @ + 1, !.failed = "none"]
          /\ UNCHANGED <<charaMeta, textConfigs>>
     ELSE \E first \in YamlAnswers, second \in YamlAnswers :
            LET started == [assets EXCEPT !.calls = @ + 1]
                meta == IF first = "ok" THEN CatalogCharacters ELSE EmptyCharaMeta
            IN IF first = "throws"
               THEN /\ charaMeta' = OnLoadError(charaMeta)
                    /\ assets' = [started EXCEPT !.failed = "chara"]
                    /\ UNCHANGED textConfigs
               ELSE IF second = "throws"
               THEN /\ charaMeta' = OnLoadError(meta)
                    /\ assets' = [started EXCEPT !.failed = "text"]
                    /\ UNCHANGED textConfigs
               ELSE /\ charaMeta' = meta
                    /\ textConfigs' =
                         IF second = "ok" THEN CatalogTextConfigs ELSE EmptyTextConfigs
                    /\ assets' = [started EXCEPT !.failed = "none"]
  /\ UNCHANGED <<variant, disposeThrows, fileAlpha, layout, gateVars, resvgVars, pc, req, handleVars, baseBytes,
                 out, trace>>

\* part_001 132-133: the awaited loadYaml(charaMetaPath) settles.
CharaMetaLoaded ==
  /\ assets.pc = "chara"
  /\ \E answer \in YamlAnswers : CharaMetaSettles(answer)
  /\ UNCHANGED <<variant, disposeThrows, fileAlpha, layout, gateVars, resvgVars, pc, req, handleVars, baseBytes,
                 out, trace>>

\* part_001 135-136: the awaited loadYaml(textConfigPath) settles.
TextConfigsLoaded ==
  /\ assets.pc = "text"
  /\ \E answer \in YamlAnswers : TextConfigsSettle(charaMeta, answer)
  /\ UNCHANGED <<variant, disposeThrows, fileAlpha, layout, gateVars, resvgVars, pc, req, handleVars, baseBytes,
                 out, trace>>

\* ------------------------------------------------ user-caption layout

\* core.ts 95-99.
USER_TEXT_BOX_RECT == <<<<728, 355>>, <<2339, 800>>>>
USER_TEXT_FONT_SIZE == 120

\* core.ts 381: for (let testFontSize = fontSize; testFontSize >= 24;
\* testFontSize -= 6)
MinFontSize == 24
FontSizeStep == 6

\* Longest text of a layout run, in code points.
MaxTextLen == 5

\* A character of a text is one code point: "a" is one UTF-16 unit, "emoji"
\* (outside the basic plane) is two.  String.length counts units, and
\* "for (const char of text)" iterates code points.
LayoutChars == {"a", "emoji"}
Units(ch) == IF ch = "emoji" THEN 2 ELSE 1

RECURSIVE Length(_)
Length(str) == IF str = <<>> THEN 0 ELSE Units(Head(str)) + Length(Tail(str))

LayoutTexts == UNION {[1..n -> LayoutChars] : n \in 0..MaxTextLen}

\* The boxes and starting sizes a layout run is given: the pipeline's own
\* (core.ts 525-531), a box 200 x 60 searched from 40, a box one character
\* wide, and a box narrower than every size of the search.
LayoutBoxes == {USER_TEXT_BOX_RECT, <<<<0, 0>>, <<200, 60>>>>, <<<<10, 10>>, <<40, 210>>>>,
                <<<<0, 0>>, <<20, 100>>>>}
LayoutFontSizes == {USER_TEXT_FONT_SIZE, 40, 30}

BoxWidth(boxRect) == boxRect[2][1] - boxRect[1][1]
BoxHeight(boxRect) == boxRect[2][2] - boxRect[1][2]

\* Math.floor(width / fontSize), for width >= 0 and fontSize > 0.
MaxCharsPerLine(width, fontSize) == width \div fontSize

\* Math.ceil(n / d) for n >= 0 and d > 0.
Ceil(n, d) == (n + d - 1) \div d

\* core.ts 383-389: svgHeight = lineCount * (testFontSize * 1.2) +
\* testFontSize * 0.3 <= boxHeight, in tenths of a pixel.  With
\* maxCharsPerLine = 0 the line count is Infinity (NaN for the empty text) and
\* the comparison is false.
FitsWithoutPadding(text, boxRect, testFontSize) ==
  LET maxCharsPerLine == MaxCharsPerLine(BoxWidth(boxRect), testFontSize)
  IN /\ maxCharsPerLine > 0
     /\ Ceil(Length(text), maxCharsPerLine) * 12 * testFontSize <= 10 * BoxHeight(boxRect)
Fits(text, boxRect, testFontSize) ==
  LET maxCharsPerLine == MaxCharsPerLine(BoxWidth(boxRect), testFontSize)
  IN /\ maxCharsPerLine > 0
     /\ Ceil(Length(text), maxCharsPerLine) * 12 * testFontSize + 3 * testFontSize
          <= 10 * BoxHeight(boxRect)

\* core.ts 284: if (currentLine.length >= maxCharsPerLine)
LineIsFullEarly(currentLine, maxCharsPerLine) == Length(currentLine) + 1 >= maxCharsPerLine
LineIsFull(currentLine, maxCharsPerLine) == Length(currentLine) >= maxCharsPerLine

\* core.ts 282-294: the wrapping loop from the i-th code point on, and the
\* push of the last line if it is not empty.
RECURSIVE WrapFrom(_, _, _, _, _)
WrapFrom(text, i, lines, currentLine, maxCharsPerLine) ==
  IF i > Len(text)
  THEN IF currentLine # <<>> THEN Append(lines, currentLine) ELSE lines
  ELSE IF LineIsFull(currentLine, maxCharsPerLine)
       THEN WrapFrom(text, i + 1, Append(lines, currentLine), <<text[i]>>, maxCharsPerLine)
       ELSE WrapFrom(text, i + 1, lines, Append(currentLine, text[i]), maxCharsPerLine)

GreedyWrap(text, maxCharsPerLine) == WrapFrom(text, 1, <<>>, <<>>, maxCharsPerLine)

\* core.ts 305: Math.max(...lines.map((line) => line.length)); Math.max() of
\* no argument is -Infinity.
RECURSIVE MaxLineLength(_)
MaxLineLength(lines) ==
  IF Len(lines) = 1 THEN Length(lines[1])
  ELSE LET m == MaxLineLength(Tail(lines))
       IN IF Length(Head(lines)) > m THEN Length(Head(lines)) ELSE m

\* core.ts 306: svgWidth = maxLineLength * fontSize + 4
SvgWidth(lines, fontSize) ==
  IF lines = <<>> THEN <<"-Infinity", 0>>
  ELSE <<"number", MaxLineLength(lines) * fontSize + 4>>

\* core.ts 301 and 307: svgHeight = lines.length * (fontSize * 1.2) +
\* fontSize * 0.3, in tenths of a pixel.
SvgHeight10(lines, fontSize) == Len(lines) * 12 * fontSize + 3 * fontSize

\* drawUserText is entered with a text, a box and a starting size
\* (core.ts 331-337, 367-378).
LayoutInputs ==
  {[NoLayout EXCEPT !.pc = "search", !.text = text, !.boxRect = boxRect,
                    !.initialFontSize = size, !.testFontSize = size,
                    !.fontSize = size] :
     text \in LayoutTexts, boxRect \in LayoutBoxes, size \in LayoutFontSizes}

\* core.ts 381-402: the loop test and one pass of the loop body.
FontSizeSearch ==
  /\ layout.pc = "search"
  /\ IF layout.testFontSize >= MinFontSize
     THEN IF Fits(layout.text, layout.boxRect, layout.testFontSize)
          THEN layout' = [layout EXCEPT !.fontSize = layout.testFontSize, !.pc = "svg"]
          ELSE layout' = [layout EXCEPT !.testFontSize = @ - FontSizeStep]
     ELSE layout' = [layout EXCEPT !.pc = "svg"]
  /\ UNCHANGED <<catalogVars, assets, gateVars, resvgVars, pc, req, handleVars,
                 baseBytes, out, trace>>

\* core.ts 405 and 269-326: generateTextSvg(text, boxWidth, fontSize, fontPath)
GenerateTextSvg ==
  /\ layout.pc = "svg"
  /\ LET lines == GreedyWrap(layout.text,
                             MaxCharsPerLine(BoxWidth(layout.boxRect), layout.fontSize))
     IN layout' = [layout EXCEPT !.pc = "done", !.lines = lines,
                                 !.svgWidth = SvgWidth(lines, layout.fontSize),
                                 !.svgHeight10 = SvgHeight10(lines, layout.fontSize)]
  /\ UNCHANGED <<catalogVars, assets, gateVars, resvgVars, pc, req, handleVars,
                 baseBytes, out, trace>>

\* ------------------------------------------------------ specification

Next ==
  \/ \E p \in Procs :
       \/ GenerateImage(p)
       \/ PickBackground(p)
       \/ PickEmotion(p)
       \/ GetVips(p)
       \/ AwaitVips(p)
       \/ LoadBackground(p)
       \/ LoadCharacter(p)
       \/ CompositeBase(p)
       \/ NameCaptioning(p)
       \/ AwaitResvg(p)
       \/ ReadNameFont(p)
       \/ RenderName(p)
       \/ CompositeName(p)
       \/ EncodeBase(p)
       \/ UserEnsureResvg(p)
       \/ DecodeBase(p)
       \/ WidenBase(p)
       \/ LayoutUserText(p) \/ RenderUserText(p)
       \/ LoadTextImage(p)
       \/ WidenText(p)
       \/ CompositeUser(p)
       \/ EncodeUser(p)
  \/ VipsConstructed
  \/ VipsTuned
  \/ \E a \in Attempts : WasmFileRead(a) \/ InitWasmSettles(a)

Spec == Init /\ [][Next]_vars

\* The steps of a request after its entry.
Run(p) ==
  \/ PickBackground(p) \/ PickEmotion(p) \/ GetVips(p)
  \/ AwaitVips(p) \/ LoadBackground(p) \/ LoadCharacter(p) \/ CompositeBase(p)
  \/ NameCaptioning(p) \/ AwaitResvg(p) \/ ReadNameFont(p) \/ RenderName(p)
  \/ CompositeName(p) \/ EncodeBase(p) \/ UserEnsureResvg(p) \/ DecodeBase(p)
  \/ WidenBase(p) \/ LayoutUserText(p) \/ RenderUserText(p) \/ LoadTextImage(p) \/ WidenText(p)
  \/ CompositeUser(p) \/ EncodeUser(p)

\* The event loop runs every continuation that is ready, and every native
\* promise (Vips(), fs.readFile, initWasm) settles.
Proc(p) ==
  \/ GenerateImage(p) \/ PickBackground(p) \/ PickEmotion(p) \/ GetVips(p)
  \/ AwaitVips(p) \/ LoadBackground(p) \/ LoadCharacter(p) \/ CompositeBase(p)
  \/ NameCaptioning(p) \/ AwaitResvg(p) \/ ReadNameFont(p) \/ RenderName(p)
  \/ CompositeName(p) \/ EncodeBase(p) \/ UserEnsureResvg(p) \/ DecodeBase(p)
  \/ WidenBase(p) \/ LayoutUserText(p) \/ RenderUserText(p) \/ LoadTextImage(p) \/ WidenText(p)
  \/ CompositeUser(p) \/ EncodeUser(p)

Settle ==
  \/ VipsConstructed
  \/ VipsTuned
  \/ \E a \in Attempts : WasmFileRead(a) \/ InitWasmSettles(a)

FairSpec ==
  /\ Spec
  /\ \A p \in Procs : WF_vars(Proc(p))
  /\ WF_vars(Settle)

\* The pipeline entered through the export generateTextBoxImage itself.
DirectNext ==
  \/ \E p \in Procs : CallGenerateTextBoxImage(p) \/ Run(p)
  \/ Settle

DirectSpec == Init /\ [][DirectNext]_vars

\* The handles an invocation can create.
Handles ==
  {<<"bgImage", 0>>, <<"charImage", 0>>, <<"userResult", 0>>}
    \cup {<<"result", k>> : k \in 0..3} \cup {<<"nameImage", k>> : k \in 1..3}
    \cup {<<"image", k>> : k \in 0..1} \cup {<<"textImage", k>> : k \in 0..1}

\* One request through the whole pipeline while [Symbol.dispose]() throws on
\* no handle, on one handle, or on every handle.
ReleaseInit ==
  /\ ProcessInit
  /\ charaMeta = CatalogCharacters
  /\ textConfigs = CatalogTextConfigs
  /\ layout = NoLayout
  /\ assets = LoadedAssets
  /\ disposeThrows \in {{}, Handles} \cup {{h} : h \in Handles}
  /\ fileAlpha = EveryAlpha

ReleaseNext ==
  \/ GenerateImage(1) \/ Run(1)
  \/ Settle

ReleaseSpec == ReleaseInit /\ [][ReleaseNext]_vars

\* One request through the whole pipeline, for every way the images of the
\* base stage have or lack an alpha channel.
AlphaInit ==
  /\ ProcessInit
  /\ charaMeta = CatalogCharacters
  /\ textConfigs = CatalogTextConfigs
  /\ layout = NoLayout
  /\ assets = LoadedAssets
  /\ disposeThrows = {}
  /\ fileAlpha \in [AlphaOrigins -> BOOLEAN]

AlphaNext ==
  \/ GenerateImage(1) \/ Run(1)
  \/ Settle

AlphaSpec == AlphaInit /\ [][AlphaNext]_vars

\* The catalog: utils/core.ts has been loaded and initAssets has not been
\* called yet; then initAssets is called, and requests arrive and are checked
\* against the catalog.
CatalogInit ==
  /\ ProcessInit
  /\ charaMeta = EmptyCharaMeta
  /\ textConfigs = EmptyTextConfigs
  /\ layout = NoLayout
  /\ disposeThrows = {}
  /\ fileAlpha = EveryAlpha
  /\ assets = [LoadedAssets EXCEPT !.calls = 0]

CatalogNext ==
  \/ InitAssets
  \/ CharaMetaLoaded
  \/ TextConfigsLoaded
  \/ \E p \in Procs : GenerateImage(p)

CatalogSpec == CatalogInit /\ [][CatalogNext]_vars

\* The layout of the user caption on its own: drawUserText's search and
\* generateTextSvg, for every text, box and starting size of LayoutInputs.
LayoutInit ==
  /\ ProcessInit
  /\ charaMeta = CatalogCharacters
  /\ textConfigs = CatalogTextConfigs
  /\ layout \in LayoutInputs
  /\ disposeThrows = {}
  /\ fileAlpha = EveryAlpha
  /\ assets = LoadedAssets

LayoutNext == FontSizeSearch \/ GenerateTextSvg

LayoutSpec == LayoutInit /\ [][LayoutNext]_vars

\* --------------------------------------------------------------- claims

Range(q) == {q[i] : i \in 1..Len(q)}

Started(p) == pc[p] # "idle"
Done(p) == pc[p] = "done"

Blank(text) == text = Missing \/ \A i \in 1..Len(text) : IsWhiteSpace(text[i])

\* C2: generateImage called with a missing, empty or whitespace-only text
\* fails with the empty-text error without invoking generateTextBoxImage (no
\* handle, no gate call); for any other text it invokes generateTextBoxImage
\* exactly once.
C2_BlankTextRejectedFirst ==
  \A p \in Procs :
    Started(p) =>
      IF Blank(req[p].text)
      THEN /\ Done(p)
           /\ out[p] = Failed("EmptyText")
           /\ trace[p] = NoTrace
           /\ loc[p] = NoLoc
           /\ created[p] = {}
      ELSE trace[p].gtbi = 1

C2_Witness ==
  \E p, q \in Procs :
    /\ Done(p) /\ req[p].text = <<" ", " ">> /\ out[p].error = "EmptyText"
    /\ Done(q) /\ ~Blank(req[q].text) /\ trace[q].gtbi = 1

\* The errors of the user-caption stage, one per step.
UserStageErrors ==
  {"RendererInitError", "DecodeError", "WidenError", "FontReadError", "LayoutError",
   "RenderError", "TextLoadError", "UserCompositeError", "UserEncodeError"}

\* C3: once generateBaseImage has returned, a failure of any step of the
\* user-caption stage does not fail the request: it returns exactly the bytes
\* generateBaseImage produced.
C3_UserStageFallsBack ==
  \A p \in Procs :
    /\ trace[p].userStage => out[p].status # "failed"
    /\ (trace[p].userStage /\ trace[p].thrown # NoError) =>
         /\ trace[p].thrown \in UserStageErrors
         /\ Done(p)
         /\ baseBytes[p] # NoBytes
         /\ out[p] = Returned(baseBytes[p])

C3_Witness ==
  \E p, q \in Procs :
    /\ trace[p].userStage /\ trace[p].thrown = "UserEncodeError" /\ Done(p)
    /\ trace[q].userStage /\ trace[q].thrown = "RendererInitError" /\ Done(q)

\* The errors of the base stage and of the name captions, one per step.
BaseStageErrors ==
  {"BackgroundLoadError", "CharacterLoadError", "BaseCompositeError",
   "RendererInitError", "FontReadError", "NameRenderError", "NameLoadError",
   "NameCompositeError", "BaseEncodeError"}

\* C4: a failure of any step of the base stage, of any name caption or of the
\* base encode fails the request with that error: no bytes are returned and
\* the user-caption stage is not entered.
C4_BaseStageFailureIsFatal ==
  \A p \in Procs :
    (~trace[p].userStage /\ trace[p].thrown # NoError) =>
      /\ trace[p].thrown \in BaseStageErrors
      /\ Done(p)
      /\ out[p] = Failed(trace[p].thrown)
      /\ baseBytes[p] = NoBytes
      /\ loc[p].image = Null /\ loc[p].textImage = Null /\ loc[p].userResult = Null

C4_Witness ==
  \E p, q \in Procs :
    /\ ~trace[p].userStage /\ trace[p].thrown = "NameCompositeError" /\ Done(p)
    /\ ~trace[q].userStage /\ trace[q].thrown = "BaseEncodeError" /\ Done(q)

ResvgAwaits == {"base_awaitResvg", "user_awaitResvg"}
VipsAwaits == {"base_awaitVips", "user_awaitVips"}

\* p is about to call ensureResvgInitialized.
AtResvgGate(p) ==
  \/ pc[p] = "base_names" /\ HasTextConfigs(req[p].character)
  \/ pc[p] = "user_ensureResvg"

\* p's last call of ensureResvgInitialized awaited attempt a and has returned
\* or thrown.
Awaited(p, a) ==
  /\ trace[p].via \in {"started", "joined"}
  /\ loc[p].awaiting = a
  /\ pc[p] \notin ResvgAwaits

\* The state of the attempt p awaits or awaited last.
AwaitedAttempt(p) == IF loc[p].awaiting = 0 THEN "unused" ELSE attempt[loc[p].awaiting]

C5_OneInFlight == Cardinality(InFlight) <= 1

C5_SameOutcome ==
  \A p \in Procs, a \in Attempts :
    Awaited(p, a) =>
      /\ trace[p].result = "ok" <=> attempt[a] = "resolved"
      /\ trace[p].result = "error" <=> attempt[a] = "rejected"

C5_JoinStartsNothing ==
  \A p \in Procs :
    (AtResvgGate(p) /\ InFlight # {} /\ pc'[p] # pc[p]) =>
      /\ pc'[p] \in ResvgAwaits
      /\ loc'[p].awaiting \in InFlight
      /\ attempt' = attempt
      /\ nAttempts' = nAttempts
      /\ initWasmCalls' = initWasmCalls

\* C5: at most one initialization attempt (and so at most one initWasm call)
\* is in flight at any time; a caller of ensureResvgInitialized that arrives
\* while an attempt is in flight starts no attempt, awaits that attempt, and
\* returns if it resolved and throws if it was rejected.
C5_SingleAttemptInFlight ==
  /\ [](C5_OneInFlight /\ C5_SameOutcome)
  /\ [][C5_JoinStartsNothing]_vars

C5_Witness ==
  \E p, q \in Procs, a \in Attempts :
    /\ p # q
    /\ trace[p].via = "started" /\ Awaited(p, a) /\ trace[p].result = "error"
    /\ trace[q].via = "joined" /\ Awaited(q, a) /\ trace[q].result = "error"
    /\ answered[a] = "WasmError"

NoAttemptFailed == \A a \in Attempts : attempt[a] # "rejected"

C6_OneInitialization ==
  /\ vipsCount <= 1
  /\ vipsInstance # 0 => (vipsCount = 1 /\ vipsTuned)
  /\ NoAttemptFailed => (nAttempts <= 1 /\ initWasmCalls <= 1)
  /\ (NoAttemptFailed /\ initialized) => initWasmCalls = 1

\* C6: when the initializations succeed, one Vips() construction and one
\* initWasm call are made in total however many invocations call the gates
\* concurrently, and every invocation waiting at a gate returns from it with
\* the subsystem ready (or the attempt it awaits has failed).
C6_AllObserveReady ==
  /\ []C6_OneInitialization
  /\ \A p \in Procs :
       (pc[p] \in ResvgAwaits) ~>
         \/ AwaitedAttempt(p) = "rejected"
         \/ pc[p] \notin ResvgAwaits /\ initialized /\ trace[p].result = "ok"
  /\ \A p \in Procs :
       (pc[p] \in VipsAwaits) ~>
         \/ vipsPromise = "rejected"
         \/ pc[p] \notin VipsAwaits /\ vipsInstance # 0 /\ trace[p].engine = 1

C6_Witness ==
  \E p, q \in Procs :
    /\ p # q
    /\ NoAttemptFailed /\ initWasmCalls = 1 /\ vipsCount = 1
    /\ trace[p].via = "started" /\ trace[p].result = "ok"
    /\ trace[q].via = "joined" /\ trace[q].result = "ok"
    /\ trace[p].engine = 1 /\ trace[q].engine = 1

\* C7: after an initialization attempt has failed with a genuine error, the
\* gate is back in the uninitialized state: no rejected attempt is recorded in
\* globalState.initializing, so that the next call starts a fresh attempt.
C7_GateResetsAfterFailure ==
  initializing # 0 => attempt[initializing] # "rejected"

\* C8: an attempt whose initWasm answers 'Already initialized' resolves: its
\* starter and every caller awaiting it return normally, the gate is ready,
\* and no later attempt is started.
C8_AlreadyInitializedIsSuccess ==
  \A a \in Attempts :
    answered[a] = "AlreadyInitialized" =>
      /\ attempt[a] = "resolved"
      /\ initialized
      /\ nAttempts = a
      /\ \A p \in Procs : Awaited(p, a) => trace[p].result = "ok"

C8_Witness ==
  \E p, q \in Procs, a \in Attempts :
    /\ p # q
    /\ answered[a] = "AlreadyInitialized"
    /\ trace[p].via = "started" /\ Awaited(p, a)
    /\ trace[q].via = "joined" /\ Awaited(q, a)

\* C9: Vips() is constructed at most once; every getVips call that returns,
\* returns the one engine, and returns it only after concurrency(1) and
\* Cache.max(0) have been applied.
C9_OneTunedEngine ==
  /\ vipsCount <= 1
  /\ vipsInstance # 0 => vipsTuned
  /\ \A p \in Procs : ~trace[p].untuned
  /\ \A p, q \in Procs :
       (trace[p].engine # 0 /\ trace[q].engine # 0) => trace[p].engine = trace[q].engine

C9_Witness ==
  \E p, q \in Procs :
    /\ p # q
    /\ trace[p].engine = 1 /\ trace[q].engine = 1
    /\ trace[p].userStage /\ pc[p] \notin {"user_getVips", "user_awaitVips"}
    /\ vipsCount = 1

\* C10: when generateTextBoxImage has terminated, every handle it created has
\* been released.
C10_AllHandlesReleased ==
  \A p \in Procs : Done(p) => created[p] \subseteq Range(disposed[p])

NoDuplicates(q) == \A i, j \in 1..Len(q) : q[i] = q[j] => i = j

\* C11: no handle is released more than once during an invocation, and only
\* handles the invocation created are released: the accumulator superseded in
\* the name-caption loop is released there and not again by the finally
\* block, and each finally block releases each of its locals at most once.
C11_NoDoubleRelease ==
  \A p \in Procs :
    /\ NoDuplicates(disposed[p])
    /\ Range(disposed[p]) \subseteq created[p]

\* Both name captions of "ema" were composited, the request ran to its end and
\* both finally blocks have run.
C11_Witness ==
  \E p \in Procs :
    /\ Done(p) /\ out[p].status = "returned"
    /\ {<<"result", 0>>, <<"result", 1>>, <<"result", 3>>, <<"charImage", 0>>,
        <<"bgImage", 0>>, <<"userResult", 0>>, <<"image", 1>>, <<"textImage", 0>>}
         \subseteq Range(disposed[p])

\* The sizes the search tries: initialFontSize, initialFontSize - 6, ... down
\* to 24.
SearchSizes(initialFontSize) ==
  {size \in MinFontSize..initialFontSize : (initialFontSize - size) % FontSizeStep = 0}

\* The fit condition as the claim states it: lineCount x 1.2 x size +
\* 0.3 x size <= boxHeight, with lineCount the number of lines of
\* floor(boxWidth / size) characters the text needs.  When not even one
\* character fits a line there is no such number (the code computes Infinity
\* or NaN) and the condition is not satisfied.
FitCondition(text, boxRect, size) ==
  \E lineCount \in 0..Length(text) :
    /\ BoxWidth(boxRect) \div size >= 1
    /\ lineCount * (BoxWidth(boxRect) \div size) >= Length(text)
    /\ \A fewer \in 0..(lineCount - 1) :
         fewer * (BoxWidth(boxRect) \div size) < Length(text)
    /\ 12 * lineCount * size + 3 * size <= 10 * BoxHeight(boxRect)

FittingSizes(l) ==
  {size \in SearchSizes(l.initialFontSize) : FitCondition(l.text, l.boxRect, size)}

Largest(S) == CHOOSE x \in S : \A y \in S : y <= x

\* C12: the font size the search chooses is one of initialFontSize,
\* initialFontSize - 6, ... within [24, initialFontSize]; when some size of
\* that sequence satisfies the fit condition, the chosen size is the largest
\* such size and the declared height of the generated document is at most
\* the box height.
C12_LargestFittingSize ==
  layout.pc = "done" =>
    /\ layout.fontSize \in SearchSizes(layout.initialFontSize)
    /\ layout.fontSize >= MinFontSize /\ layout.fontSize <= layout.initialFontSize
    /\ FittingSizes(layout) # {} =>
         /\ layout.fontSize = Largest(FittingSizes(layout))
         /\ layout.svgHeight10 <= 10 * BoxHeight(layout.boxRect)

\* The search went below its starting size, and the text wraps.
C12_Witness ==
  /\ layout.pc = "done"
  /\ FittingSizes(layout) # {}
  /\ layout.fontSize < layout.initialFontSize
  /\ Len(layout.lines) >= 2
  /\ \E i \in 1..Len(layout.text) : layout.text[i] = "emoji"

\* C13: when no size of the search fits, the document is generated at the
\* minimum font size, 24.
C13_OverflowUsesMinimumSize ==
  (layout.pc = "done" /\ FittingSizes(layout) = {}) => layout.fontSize = MinFontSize

\* maxCharsPerLine of the document the layout run generated.
DocMaxChars == MaxCharsPerLine(BoxWidth(layout.boxRect), layout.fontSize)

Rewrapped(maxCharsPerLine) ==
  \A i \in 1..Len(layout.lines) :
    GreedyWrap(layout.lines[i], maxCharsPerLine) = <<layout.lines[i]>>

BaseCompositeLayers == <<"background", "character">>

\* C15: generateTextBoxImage called with the empty text for a character that
\* has no CaptionSpecs returns the base composite: no name caption and no user
\* caption is composited into the returned bytes.
C15_EmptyTextReturnsBaseComposite ==
  \A p \in Procs :
    (/\ Done(p) /\ out[p].status = "returned"
     /\ req[p].text = <<>> /\ ~HasTextConfigs(req[p].character)) =>
      out[p].bytes.layers = BaseCompositeLayers

\* C16: every buffer generateImage returns is PNG-encoded, on the success
\* path and on the fallback path of the user caption alike.
C16_ReturnsPng ==
  \A p \in Procs :
    (Done(p) /\ out[p].status = "returned") => out[p].bytes.fmt = "png"

\* C17: a request whose call of the renderer gate fails returns no image,
\* whether the gate was called for the name captions or for the user caption.
C17_RendererFailureIsFatal ==
  \A p \in Procs :
    (Done(p) /\ trace[p].via # "none" /\ trace[p].result = "error") =>
      out[p].status = "failed"

\* C18: when reading or parsing either configuration file failed during
\* initAssets, initAssets has not thrown and the catalog is empty:
\* getAvailableCharacters returns the empty sequence and no character id
\* passes the check of generateTextBoxImage.
C18_FailedLoadLeavesCatalogEmpty ==
  (assets.pc = "idle" /\ assets.failed # "none") =>
    /\ ~assets.threw
    /\ GetAvailableCharacters = <<>>
    /\ \A c \in Characters : ~KnownCharacter(c)

\* C19: when the user-caption composite is attempted, and ever after, both
\* of its operands have an alpha channel, whether the decoded base image and
\* the loaded caption had one or were widened with bandjoin(255).
C19_CompositeOperandsHaveAlpha ==
  \A p \in Procs :
    (pc[p] \in {"user_composite", "user_encode"} \/ loc[p].userResult # Null) =>
      /\ loc[p].imageAlpha /\ loc[p].textAlpha
      /\ loc[p].image # Null /\ loc[p].textImage # Null

\* One request composited two widened operands, the other two operands that
\* had their alpha channel from the start.
C19_Witness ==
  \E p, q \in Procs :
    /\ loc[p].userResult # Null
    /\ loc[p].image = <<"image", 1>> /\ loc[p].textImage = <<"textImage", 1>>
    /\ loc[q].userResult # Null
    /\ loc[q].image = <<"image", 0>> /\ loc[q].textImage = <<"textImage", 0>>

\* The layers of the base image of a character: the background, the
\* character, and one name caption for each CaptionSpec with text.
RECURSIVE NameLayers(_)
NameLayers(specs) ==
  IF specs = <<>> THEN <<>>
  ELSE (IF Head(specs).text = "" THEN <<>> ELSE <<"name">>) \o NameLayers(Tail(specs))

ExpectedBase(c) == [fmt |-> "avif", layers |-> BaseCompositeLayers \o NameLayers(SpecsOf(c))]

ExpectedFinal(c) ==
  [fmt |-> TargetFormat, layers |-> Append(ExpectedBase(c).layers, "userText")]

\* What an invocation returns is what it returns when it runs alone with the
\* same answers: a function of its own character and of where it failed.
C20_OwnResult ==
  \A p \in Procs :
    /\ Range(disposed[p]) \subseteq created[p]
    /\ baseBytes[p] # NoBytes => baseBytes[p] = ExpectedBase(req[p].character)
    /\ (Done(p) /\ out[p].status = "returned") =>
         out[p].bytes = IF trace[p].thrown = NoError
                        THEN ExpectedFinal(req[p].character)
                        ELSE ExpectedBase(req[p].character)
    /\ (Done(p) /\ out[p].status = "failed" /\ trace[p].thrown # NoError) =>
         out[p].error = trace[p].thrown

\* A step changes the locals, the handles and the result of no invocation
\* but the one that takes it, and it writes no module state but the engine
\* gate's and the renderer gate's.
C20_OwnStep ==
  /\ \A q \in Procs :
       pc'[q] = pc[q] =>
         /\ loc'[q] = loc[q] /\ created'[q] = created[q] /\ disposed'[q] = disposed[q]
         /\ baseBytes'[q] = baseBytes[q] /\ out'[q] = out[q]
         /\ req'[q] = req[q] /\ trace'[q] = trace[q]
  /\ charaMeta' = charaMeta /\ textConfigs' = textConfigs /\ assets' = assets

\* C20: under every interleaving of concurrent invocations, no invocation
\* uses or releases a handle of another one, no invocation writes module
\* state other than the engine handle and the renderer's readiness, and each
\* invocation's result is the one it produces alone with the same answers.
C20_InvocationsAreIsolated == []C20_OwnResult /\ [][C20_OwnStep]_vars

\* Two requests for different characters ran interleaved: one is about to
\* encode its final image while the other, which started first and holds
\* handles of its own, is in its name-caption loop.
C20_Witness ==
  \E p, q \in Procs :
    /\ p # q
    /\ pc[p] = "user_encode" /\ req[p].character = "hiro"
    /\ pc[q] = "name_composite" /\ req[q].character = "ema" /\ loc[q].k = 3
    /\ created[p] # {} /\ created[q] # {} /\ created[p] # created[q]

\* C21: every invocation that has started eventually reaches a terminal
\* state, bytes returned or an error thrown, whatever the other invocations
\* do and whether the initialization attempt it awaits succeeds or fails.
C21_EveryInvocationTerminates ==
  \A p \in Procs :
    Started(p) ~> (Done(p) /\ out[p].status \in {"returned", "failed"})

\* One invocation joined an attempt that failed and has terminated with the
\* error; the other has terminated as well.
C21_Witness ==
  \E p, q \in Procs :
    /\ p # q
    /\ Done(p) /\ trace[p].via = "joined" /\ trace[p].result = "error"
    /\ out[p].status = "failed"
    /\ Done(q) /\ trace[q].via = "started" /\ trace[q].result = "error"

C22_StaysReady == initialized => initialized'

C22_ReadyCallIsNoOp ==
  \A p \in Procs :
    (AtResvgGate(p) /\ initialized /\ pc'[p] # pc[p]) =>
      /\ pc'[p] \notin ResvgAwaits
      /\ pc'[p] \in {"base_readFont", "user_decode"}
      /\ trace'[p].via = "ready" /\ trace'[p].result = "ok"
      /\ loc'[p].awaiting = loc[p].awaiting
      /\ <<initializing, attempt, nAttempts, initWasmCalls>>' =
           <<initializing, attempt, nAttempts, initWasmCalls>>

\* C22: once the renderer gate is ready it stays ready, and a call of
\* ensureResvgInitialized made while it is ready returns without starting an
\* attempt and without awaiting one.
C22_ReadyGateIsNoOp == [][C22_StaysReady /\ C22_ReadyCallIsNoOp]_vars

\* Both calls of one invocation (name captions, user caption) found the gate
\* ready, after another invocation's attempt made it so.
C22_Witness ==
  \E p, q \in Procs :
    /\ p # q
    /\ initialized /\ nAttempts = 1
    /\ trace[q].via = "started" /\ trace[q].result = "ok"
    /\ trace[p].via = "ready" /\ trace[p].result = "ok"
    /\ HasTextConfigs(req[p].character) /\ pc[p] = "user_decode"
    /\ loc[p].awaiting = 0

\* What the claim prescribes for the specs from the k-th on, on top of the
\* accumulator base: for each spec with text one render and then one
\* composite over the result of the previous composite, at the spec's
\* position; nothing for a spec with empty text.
RECURSIVE PrescribedNames(_, _, _)
PrescribedNames(specs, k, base) ==
  IF k > Len(specs) THEN <<>>
  ELSE IF specs[k].text = "" THEN PrescribedNames(specs, k + 1, base)
  ELSE << [op |-> "render", spec |-> k, text |-> specs[k].text],
          [op |-> "composite", spec |-> k, base |-> base, at |-> specs[k].position,
           result |-> <<"result", k>>] >>
       \o PrescribedNames(specs, k + 1, <<"result", k>>)

IsPrefix(q, r) == Len(q) <= Len(r) /\ SubSeq(r, 1, Len(q)) = q

\* The name-caption stage is over and did not throw.
NameStageOver(p) == baseBytes[p] # NoBytes \/ pc[p] = "base_encode"

NameStage == {"base_names", "base_awaitResvg", "base_readFont", "name_render",
              "name_composite"}
StepAt(position) ==
  CASE position = "base_loadBg" -> 1
    [] position = "base_loadChar" -> 2
    [] position = "base_composite" -> 3
    [] position \in NameStage -> 4
    [] position \in {"base_encode", "user_getVips", "user_awaitVips", "user_ensureResvg",
                     "user_awaitResvg", "user_decode", "user_widen"} -> 5
    [] position = "user_layout" -> 6
    [] position = "user_render" -> 7
    [] position \in {"user_loadText", "user_widenText", "user_composite"} -> 8
    [] position = "user_encode" -> 9
    [] position = "done" -> 10
    [] OTHER -> 0

\* A step starts only after the one before it has completed: at the place of
\* a step the products of the steps before it exist.
C24_StepsComplete ==
  \A p \in Procs :
    LET n == StepAt(pc[p])
        returned == Done(p) /\ out[p].status = "returned"
    IN /\ n \in 2..9 => <<"bgImage", 0>> \in created[p]
       /\ n \in 3..9 => <<"charImage", 0>> \in created[p]
       /\ n \in 4..9 => <<"result", 0>> \in created[p]
       /\ n \in 5..9 =>
            loc[p].names = PrescribedNames(SpecsOf(req[p].character), 1, <<"result", 0>>)
       /\ n \in 6..9 => baseBytes[p] # NoBytes /\ loc[p].image # Null
       /\ pc[p] = "user_composite" => loc[p].textImage \in created[p]
       /\ n = 9 => <<"userResult", 0>> \in created[p]
       /\ n < 8 => <<"userResult", 0>> \notin created[p] /\ loc[p].textImage = Null
       /\ n < 5 => baseBytes[p] = NoBytes /\ loc[p].image = Null
       /\ n < 4 => loc[p].names = <<>>
       /\ n < 3 /\ ~Done(p) => <<"result", 0>> \notin created[p]
       /\ n < 2 /\ ~Done(p) => <<"charImage", 0>> \notin created[p]
       /\ n < 1 /\ ~Done(p) => created[p] = {}

\* No step goes back to an earlier one, the name-caption loop goes through
\* its specs forwards, and a step of one invocation moves no other.
C24_StepsAdvance ==
  /\ \A p \in Procs :
       /\ StepAt(pc'[p]) >= StepAt(pc[p])
       /\ pc'[p] # pc[p] /\ StepAt(pc'[p]) = StepAt(pc[p]) /\ StepAt(pc[p]) \in 1..9 =>
            /\ loc'[p].k >= loc[p].k
            /\ pc[p] = "name_composite" => loc'[p].k > loc[p].k
            /\ StepAt(pc[p]) = 8 =>
                 <<pc[p], pc'[p]>> \in {<<"user_loadText", "user_widenText">>,
                                        <<"user_widenText", "user_composite">>}
  /\ \A p, q \in Procs : pc'[p] # pc[p] /\ pc'[q] # pc[q] => p = q

\* C24: within one invocation the background load, the character load, the
\* base composite, the name-caption composites, the user-caption layout, the
\* render, the composite and the final encode start in this order, each after
\* the one before it has completed, whatever other invocations do in between.
C24_StepsInOrder == []C24_StepsComplete /\ [][C24_StepsAdvance]_vars

\* One invocation went through every step to the final encode while the
\* other, started before that, is between its layout and its render.
C24_Witness ==
  \E p, q \in Procs :
    /\ p # q
    /\ Done(p) /\ out[p].status = "returned" /\ <<"userResult", 0>> \in created[p]
    /\ req[p].character = "ema" /\ Len(loc[p].names) = 4
    /\ pc[q] = "user_render" /\ <<"bgImage", 0>> \in created[q]

\* C25: within one build every buffer generateTextBoxImage returns has the
\* same raster format, whether the user-caption stage succeeded or fell back
\* to the base image.
C25_OneFormatPerBuild ==
  \A p, q \in Procs :
    (/\ Done(p) /\ out[p].status = "returned"
     /\ Done(q) /\ out[q].status = "returned") =>
      out[p].bytes.fmt = out[q].bytes.fmt

RECURSIVE Concatenation(_)
Concatenation(lines) ==
  IF lines = <<>> THEN <<>> ELSE Head(lines) \o Concatenation(Tail(lines))

\* The wrap the claim describes, with the characters of a text counted by
\* count (UTF-16 units as text.length counts them, or code points as the loop
\* of generateTextSvg steps through them).
WrapsInto(lines, text, maxCharsPerLine, count(_)) ==
  /\ Len(lines) = Ceil(count(text), maxCharsPerLine)
  /\ \A i \in 1..Len(lines) : lines[i] # <<>> /\ count(lines[i]) <= maxCharsPerLine
  /\ Concatenation(lines) = text

\* The line count and the height of the fit check (core.ts 383-386) at the
\* chosen size are those of the document.
FitCheckIsTheDocument ==
  LET lineCount == Ceil(Length(layout.text), DocMaxChars)
  IN /\ lineCount = Len(layout.lines)
     /\ lineCount * 12 * layout.fontSize + 3 * layout.fontSize = layout.svgHeight10

\* C26: a text of n >= 1 characters wrapped with maxCharsPerLine >= 1 gives
\* ceil(n / maxCharsPerLine) lines, each non-empty and of at most
\* maxCharsPerLine characters, that concatenate to the text, and the line
\* count and height of the fit check are those of the generated document;
\* with either way of counting characters.
C26_WrapMatchesFitCheck ==
  (layout.pc = "done" /\ layout.text # <<>> /\ DocMaxChars >= 1) =>
    /\ \/ WrapsInto(layout.lines, layout.text, DocMaxChars, Length)
       \/ WrapsInto(layout.lines, layout.text, DocMaxChars, Len)
    /\ FitCheckIsTheDocument

\* The locals the finally blocks that have run were to release: those of
\* generateBaseImage once it has ended, those of drawUserText once it has.
DueForRelease(p) ==
  (IF created[p] # {} /\ (Done(p) \/ baseBytes[p] # NoBytes)
   THEN {loc[p].result, loc[p].charImage, loc[p].bgImage} ELSE {})
  \cup (IF Done(p) /\ trace[p].userStage
        THEN {loc[p].userResult, loc[p].textImage, loc[p].image} ELSE {})
  \cup UNION {{loc[p].names[i].base, <<"nameImage", loc[p].names[i].spec>>} :
                i \in {j \in 1..Len(loc[p].names) : loc[p].names[j].op = "composite"}}

\* C27: a release that throws changes neither the outcome of the request,
\* which is the bytes or the error it ends with when every release succeeds,
\* nor the release of the other handles: dispose is called on every handle
\* due for release, the throwing ones included.
C27_ReleaseFailureIsHarmless ==
  \A p \in Procs :
    /\ (DueForRelease(p) \ {Null}) \subseteq Range(disposed[p])
    /\ (Done(p) /\ out[p].status = "returned") =>
         out[p].bytes = IF trace[p].thrown = NoError
                        THEN ExpectedFinal(req[p].character)
                        ELSE ExpectedBase(req[p].character)
    /\ (Done(p) /\ created[p] # {} /\ out[p].status = "failed") =>
         out[p].error = trace[p].thrown /\ trace[p].thrown # NoError
    /\ (Done(p) /\ created[p] # {} /\ trace[p].thrown = NoError) =>
         out[p].status = "returned"

\* The first release of a finally block threw, in the name-caption loop and in
\* both finally blocks, and the request returned its final image with every
\* handle released.
C27_Witness ==
  \E p \in Procs :
    /\ disposeThrows = Handles
    /\ Done(p) /\ out[p].status = "returned" /\ trace[p].thrown = NoError
    /\ req[p].character = "ema"
    /\ Range(disposed[p]) = created[p]
    /\ Cardinality(created[p]) >= 9

\* C28: every composite2 call of the pipeline, in the base stage, in the
\* name-caption stage and in the user-caption stage, is made with two
\* operands that both have an alpha channel or both lack it.
C28_CompositeOperandsAgree ==
  \A p \in Procs :
    \A i \in 1..Len(loc[p].composites) :
      loc[p].composites[i].base = loc[p].composites[i].overlay

\* The handles the step an invocation is about to take passes to the native
\* library: the operands of composite2 (core.ts 194, 232, 455), the image
\* asked hasAlpha() and widened (362-363, 434-435), the image encoded
\* (248, 465).
UsedNext(p) ==
  CASE pc[p] = "base_composite" -> {loc[p].bgImage, loc[p].charImage}
    [] pc[p] = "name_composite" -> {loc[p].result}
    [] pc[p] = "base_encode" -> {loc[p].result}
    [] pc[p] = "user_widen" -> {loc[p].image}
    [] pc[p] = "user_widenText" -> {loc[p].textImage}
    [] pc[p] = "user_composite" -> {loc[p].image, loc[p].textImage}
    [] pc[p] = "user_encode" -> {loc[p].userResult}
    [] OTHER -> {}

C29_UsedHandlesAreLive ==
  \A p \in Procs :
    /\ UsedNext(p) \subseteq created[p]
    /\ UsedNext(p) \cap Range(disposed[p]) = {}

\* The encode of a stage comes before the release of the accumulator it
\* encodes, and the accumulator the name-caption loop releases is not the one
\* the loop goes on with.
C29_EncodeThenRelease ==
  \A p \in Procs :
    /\ (pc[p] = "base_encode" /\ baseBytes'[p] # NoBytes) =>
         /\ loc[p].result \notin Range(disposed[p])
         /\ loc[p].result \in Range(disposed'[p])
    /\ (pc[p] = "user_encode" /\ out'[p].status = "returned") =>
         /\ loc[p].userResult \notin Range(disposed[p])
         /\ loc[p].userResult \in Range(disposed'[p])
    /\ (pc[p] = "name_composite" /\ pc'[p] = "name_render") =>
         /\ loc[p].result \in Range(disposed'[p])
         /\ loc'[p].result \notin Range(disposed'[p])
         /\ loc'[p].result # loc[p].result

\* C29: no handle is used after its release: the operands of every
\* composite, widening, attribute query and encode have not been released;
\* each stage encodes its accumulator before it releases it, and the
\* accumulator released in the name-caption loop is no operand afterwards.
C29_NoUseAfterRelease == []C29_UsedHandlesAreLive /\ [][C29_EncodeThenRelease]_vars

\* A request went through two name composites, both encodes and every
\* release: the accumulators of the loop, the operands and both finals.
C29_Witness ==
  \E p \in Procs :
    /\ Done(p) /\ out[p].status = "returned" /\ trace[p].thrown = NoError
    /\ req[p].character = "ema"
    /\ {<<"result", 0>>, <<"result", 1>>, <<"result", 3>>, <<"userResult", 0>>}
         \subseteq Range(disposed[p])

\* The places where the next step constructs a Resvg and renders with it:
\* core.ts 221-227 for a name caption, 409-417 for the user caption.
AtRender(p) ==
  \/ pc[p] = "user_render"
  \/ /\ pc[p] = "name_render"
     /\ NextSpec(SpecsOf(req[p].character), loc[p].k) <= Len(SpecsOf(req[p].character))

\* C30: a render, in the name-caption stage or in the user-caption stage,
\* happens only while the renderer is ready: globalState.initialized is true,
\* and the wasm module is initialized indeed.
C30_RenderOnlyWhenReady ==
  \A p \in Procs :
    (AtRender(p) \/ Len(loc[p].names) > 0) => initialized /\ wasmReady

\* The first attempt to initialize the renderer failed and ended the request
\* that awaited it; the other request started a second attempt, which
\* succeeded, and is about to render a name caption.
C30_Witness ==
  \E p, q \in Procs :
    /\ p # q
    /\ Done(p) /\ trace[p].result = "error"
    /\ pc[q] = "name_render" /\ AtRender(q) /\ trace[q].via = "started"
    /\ nAttempts = 2 /\ attempt[1] = "rejected" /\ attempt[2] = "resolved"

EngineFailed == vipsPromise = "rejected"

\* The request of p is one for a known character that generateTextBoxImage
\* was called with.
KnownRequest(p) ==
  /\ req[p].via # "none"
  /\ KnownCharacter(req[p].character)
  /\ ~(req[p].via = "service" /\ TextRejected(req[p].text))

\* Once the construction has failed no engine exists, none was constructed but
\* the one, no invocation is past the engine gate, and every request that has
\* ended has failed.
C31_FailedEngineServesNobody ==
  EngineFailed =>
    /\ vipsInstance = 0 /\ vipsCount = 1
    /\ \A p \in Procs :
         /\ pc[p] \in {"idle", "pick_bg", "pick_bg_em", "pick_em", "base_getVips",
                        "base_awaitVips", "done"}
         /\ created[p] = {} /\ trace[p].engine = 0
         /\ Done(p) => out[p].status = "failed"
         /\ (Done(p) /\ KnownRequest(p)) => out[p].error \in {"ReaddirError", "VipsInitError"}

\* After the failure no step starts a construction or replaces the promise,
\* and a getVips call awaits the rejected promise and throws its error.
C31_FailedEngineStaysFailed ==
  EngineFailed =>
    /\ vipsPromise' = vipsPromise /\ vipsCount' = vipsCount /\ vipsInstance' = vipsInstance
    /\ \A p \in Procs :
         /\ (pc[p] = "base_getVips" /\ pc'[p] # pc[p]) => pc'[p] = "base_awaitVips"
         /\ (pc[p] = "base_awaitVips" /\ pc'[p] # pc[p]) =>
              Done(p)' /\ out'[p] = Failed("VipsInitError")
         /\ (Done(p)' /\ ~Done(p) /\ out'[p].error # "VipsInitError") =>
              pc[p] \in {"idle", "pick_bg", "pick_bg_em"}

\* C31: the engine gate never retries: once the one construction has failed
\* no second one is started and every later getVips call fails with that
\* error, so that every later request for a known character fails, with that
\* error if it gets as far as getVips (with the error of the background pick
\* if that throws first).
C31_EngineGateNeverRetries ==
  []C31_FailedEngineServesNobody /\ [][C31_FailedEngineStaysFailed]_vars

\* C31 as stated: every request for a known character made after the
\* construction has failed ends with the error of the construction.
C31_EveryLaterRequestFailsWithTheEngineError ==
  \A p \in Procs :
    []((EngineFailed /\ pc[p] = "idle") =>
         []((Done(p) /\ KnownRequest(p)) => out[p] = Failed("VipsInitError")))

\* After the construction failed one request has ended with its error and
\* the other awaits the rejected promise in getVips, in the build that
\* constructs on the first call.
C31_Witness ==
  \E p, q \in Procs :
    /\ p # q
    /\ EngineFailed /\ variant = "async" /\ vipsCount = 1
    /\ Done(p) /\ out[p] = Failed("VipsInitError")
    /\ pc[q] = "base_awaitVips" /\ KnownRequest(q)

====
